---------------------------- MODULE Spec2Model ----------------------------
(***************************************************************************)
(* trpz_opt (trapezio_optimized_hyperbolic.py): solution of the hyperbolic *)
(* Kepler equation  excen*sinh(z) - z = time_array  by a contour integral  *)
(* evaluated with the composite trapezoidal rule on [0, pi].               *)
(*                                                                         *)
(* Real numbers are fixed-point integers: the integer n stands for the     *)
(* real n / Scale.  The results of the complex division and of the final   *)
(* quotient are extended reals (finite, +inf, -inf, nan), because that is  *)
(* where the floating-point code can leave the finite numbers.             *)
(*                                                                         *)
(* The fixed-point unit is the resolution of the model: quantities below   *)
(* 1 / Scale are 0 in it, in particular sin(pi), which is 1.2e-16 in       *)
(* double precision.  The inputs are chosen so that e*sinh(z) - z - M on   *)
(* the contour is well above the unit, except for M = 0, where it is 0 in  *)
(* double precision as well (mu = rho = 0).                                *)
(***************************************************************************)
EXTENDS Integers, Sequences, FiniteSets, Bags, TLC

\* ------------------------------------------------------------- bounds
\* Fixed-point unit: n stands for n / Scale.
Scale == 1000
\* Longest time_array drawn.
MaxLen == 3
\* Largest N_fft drawn.
MaxN == 3

\* ------------------------------------------------- fixed-point reals
Abs(x) == IF x < 0 THEN -x ELSE x
Sgn(x) == IF x < 0 THEN -1 ELSE IF x > 0 THEN 1 ELSE 0
Min(x, y) == IF x <= y THEN x ELSE y
Max(x, y) == IF x >= y THEN x ELSE y

\* Integer quotient rounded to nearest, for any signs (d # 0).
IDiv(n, d) == Sgn(n) * Sgn(d) * ((Abs(n) + Abs(d) \div 2) \div Abs(d))

\* x * y of two fixed-point reals; the larger factor is split so that the
\* intermediate products stay in TLC's integer range.
MulAbs(l, s) == (l \div Scale) * s + ((l % Scale) * s + Scale \div 2) \div Scale
Mul(x, y) == Sgn(x) * Sgn(y) * MulAbs(Max(Abs(x), Abs(y)), Min(Abs(x), Abs(y)))

\* x / y of two fixed-point reals (y # 0).
DivAbs(n, d) == (n \div d) * Scale + ((n % d) * Scale + d \div 2) \div d
Div(x, y) == Sgn(x) * Sgn(y) * DivAbs(Abs(x), Abs(y))

\* np.sqrt of a non-negative real: the largest r in lo..hi with r*r <= x,
\* by bisection.
RECURSIVE SqrtIn(_, _, _)
SqrtIn(x, lo, hi) ==
  IF lo >= hi THEN lo
  ELSE LET mid == (lo + hi + 1) \div 2
       IN IF Mul(mid, mid) <= x THEN SqrtIn(x, mid, hi)
          ELSE SqrtIn(x, lo, mid - 1)
Sqrt(x) == SqrtIn(x, 0, Max(x, Scale))

\* r^n <= v for r, v >= 0, by repeated multiplication; stops as soon as a
\* partial power of an r >= 1 exceeds v.
RECURSIVE PowLeq(_, _, _, _)
PowLeq(r, n, p, v) ==
  IF n = 0 THEN p <= v
  ELSE IF r >= Scale /\ p > v THEN FALSE
  ELSE PowLeq(r, n - 1, Mul(p, r), v)

\* The n-th root of a non-negative real v (v ** (1/n)): the largest r in
\* lo..hi with r^n <= v, by bisection.
RECURSIVE RootIn(_, _, _, _)
RootIn(v, n, lo, hi) ==
  IF lo >= hi THEN lo
  ELSE LET mid == (lo + hi + 1) \div 2
       IN IF PowLeq(mid, n, Scale, v) THEN RootIn(v, n, mid, hi)
          ELSE RootIn(v, n, lo, mid - 1)
Root(v, n) == RootIn(v, n, 0, IF v < Scale THEN Scale ELSE Min(v, 100 * Scale))

\* Taylor series of sinh / cosh / sin / cos: term k+1 is term k times
\* sg * x^2 / (d * (d + 1)); summed until the terms vanish.
RECURSIVE Series(_, _, _, _, _)
Series(term, x2, d, sg, acc) ==
  IF term = 0 THEN acc
  ELSE LET nxt == IDiv(sg * Mul(term, x2), d * (d + 1))
       IN Series(nxt, x2, d + 2, sg, acc + term)

\* np.sinh, np.cosh of a real.
Sinh(x) == Series(x, Mul(x, x), 2, 1, 0)
Cosh(x) == Series(Scale, Mul(x, x), 1, 1, 0)

\* np.pi, np.e
Pi == (31416 * Scale) \div 10000
Euler == (27183 * Scale) \div 10000

\* np.sin, np.cos of a real in [-pi, pi]; arguments beyond pi/2 are
\* reflected (sin(pi - x) = sin x, cos(pi - x) = -cos x).
SinT(x) == Series(x, Mul(x, x), 2, -1, 0)
CosT(x) == Series(Scale, Mul(x, x), 1, -1, 0)
Sin(x) ==
  IF Abs(x) > Pi \div 2 THEN Sgn(x) * SinT(Pi - Abs(x)) ELSE SinT(x)
Cos(x) ==
  IF Abs(x) > Pi \div 2 THEN -CosT(Pi - Abs(x)) ELSE CosT(x)

\* np.arcsinh of a real: the inverse of sinh, odd in its argument
\* (asinh u <= u, and asinh u < 10 for every u the model represents).
RECURSIVE ArcsinhIn(_, _, _)
ArcsinhIn(u, lo, hi) ==
  IF lo >= hi THEN lo
  ELSE LET mid == (lo + hi + 1) \div 2
       IN IF Sinh(mid) <= u THEN ArcsinhIn(u, mid, hi)
          ELSE ArcsinhIn(u, lo, mid - 1)
Arcsinh(u) == Sgn(u) * ArcsinhIn(Abs(u), 0, Min(Abs(u), 10 * Scale))

\* ------------------------------------------------------ extended reals
\* A float that may have left the finite numbers: k is "fin" (v the
\* fixed-point value), "inf" (v its sign) or "nan".  Signed zeros are not
\* kept: a zero divisor counts as +0.
Fin(n) == [k |-> "fin", v |-> n]
Inf(s) == [k |-> "inf", v |-> s]
NaN == [k |-> "nan", v |-> 0]
IsFinite(a) == a.k = "fin"

XSgn(a) == IF a.k = "nan" THEN 0 ELSE Sgn(a.v)

XAdd(a, b) ==
  IF a.k = "nan" \/ b.k = "nan" THEN NaN
  ELSE IF a.k = "inf" /\ b.k = "inf" THEN (IF a.v = b.v THEN a ELSE NaN)
  ELSE IF a.k = "inf" THEN a
  ELSE IF b.k = "inf" THEN b
  ELSE Fin(a.v + b.v)

XNeg(a) == IF a.k = "nan" THEN NaN ELSE [k |-> a.k, v |-> -a.v]
XSub(a, b) == XAdd(a, XNeg(b))

XMul(a, b) ==
  IF a.k = "nan" \/ b.k = "nan" THEN NaN
  ELSE IF a.k = "inf" \/ b.k = "inf"
       THEN (IF XSgn(a) = 0 \/ XSgn(b) = 0 THEN NaN ELSE Inf(XSgn(a) * XSgn(b)))
  ELSE Fin(Mul(a.v, b.v))

XDiv(a, b) ==
  IF a.k = "nan" \/ b.k = "nan" THEN NaN
  ELSE IF a.k = "inf" THEN (IF b.k = "inf" THEN NaN
                            ELSE Inf(a.v * (IF b.v < 0 THEN -1 ELSE 1)))
  ELSE IF b.k = "inf" THEN Fin(0)
  ELSE IF b.v = 0 THEN (IF a.v = 0 THEN NaN ELSE Inf(Sgn(a.v)))
  ELSE Fin(Div(a.v, b.v))

\* ------------------------------------------------------ complex numbers
Cx(r, i) == [re |-> r, im |-> i]
\* A real promoted to a complex operand.
CReal(n) == Cx(Fin(n), Fin(0))
CFin(r, i) == Cx(Fin(r), Fin(i))
CAdd(z, w) == Cx(XAdd(z.re, w.re), XAdd(z.im, w.im))
CSub(z, w) == Cx(XSub(z.re, w.re), XSub(z.im, w.im))
CMul(z, w) ==
  Cx(XSub(XMul(z.re, w.re), XMul(z.im, w.im)),
     XAdd(XMul(z.re, w.im), XMul(z.im, w.re)))

\* 1. / w for a finite complex w = wr + i wi (Smith's division, as numpy's
\* complex division does it); 1. / 0j is inf + nan j.
CRecip(wr, wi) ==
  IF wr = 0 /\ wi = 0 THEN Cx(Inf(1), NaN)
  ELSE IF Abs(wr) >= Abs(wi)
       THEN LET rat == Div(wi, wr)
                den == wr + Mul(wi, rat)
            IN CFin(Div(Scale, den), Div(-rat, den))
       ELSE LET rat == Div(wr, wi)
                den == wi + Mul(wr, rat)
            IN CFin(Div(rat, den), Div(-Scale, den))

\* np.sinh of a finite complex a + i b.
CSinh(a, b) == [re |-> Mul(Sinh(a), Cos(b)), im |-> Mul(Cosh(a), Sin(b))]

\* ---------------------------------------------------- array operations
Range(s) == {s[i] : i \in DOMAIN s}

\* a[lo:hi] for 0 <= lo, 0 <= hi.
PySlice(s, lo, hi) == SubSeq(s, lo + 1, Min(hi, Len(s)))

\* a[a <= t] and a[a > t]: boolean-mask selection keeps the selected
\* elements in their order.
MaskLeq(a, t) == SelectSeq(a, LAMBDA v : v <= t)
MaskGt(a, t) == SelectSeq(a, LAMBDA v : v > t)

\* np.hstack((p, q, r))
Hstack(p, q, r) == p \o q \o r

\* np.linspace(0, np.pi, n): n points, both ends included.
Linspace(n) ==
  IF n = 1 THEN <<0>> ELSE [k \in 1..n |-> IDiv(Pi * (k - 1), n - 1)]

\* np.sum(rows, axis=0) of complex rows, each of length len.
RECURSIVE SumRows(_, _)
SumRows(rows, len) ==
  IF rows = <<>> THEN [i \in 1..len |-> CReal(0)]
  ELSE LET rest == SumRows(Tail(rows), len)
       IN [i \in 1..len |-> CAdd(Head(rows)[i], rest[i])]

\* ------------------------------------------------------------ trpz_opt
VARIABLES
  pc,          \* the statement trpz_opt is at
  time_array,  \* argument: the mean anomalies
  N_fft,       \* argument: number of quadrature nodes
  excen,       \* argument: eccentricity
  epsi,        \* argument: contour shape parameter
  c1, c2, c3,  \* the three regime buckets, after their formulas
  xmas,        \* upper bounds
  xmenos,      \* lower bounds
  mu, rho,     \* contour centre and radius
  tablaD,      \* denominator integrand, one row per node
  tablaN,      \* numerator integrand, one row per node
  numer, denom,\* the two trapezoidal sums
  z0_array,    \* the result array
  outcome      \* "running", "AssertionError" or "returned"

vars == <<pc, time_array, N_fft, excen, epsi, c1, c2, c3, xmas, xmenos,
          mu, rho, tablaD, tablaN, numer, denom, z0_array, outcome>>

args == <<time_array, N_fft, excen, epsi>>
partitionVars == <<c1, c2, c3, xmas>>
contourVars == <<xmenos, mu, rho>>
tableVars == <<tablaD, tablaN>>
sumVars == <<numer, denom>>

\* The two input checks (the asserts).
\* (variant: the order check lets N_fft = 1 through)
ValidOrderFromOne(n) == n >= 1
ValidOrder(n) == n > 1
ValidExcen(e) == e > Scale

\* Regime thresholds: sqrt(6)*(excen-1)**1.5/sqrt(e) and 14.907*excen.
Pow15(x) == Mul(x, Sqrt(x))
T1(e) == Div(Mul(Sqrt(6 * Scale), Pow15(e - Scale)), Sqrt(Euler))
T2(e) == Mul((14907 * Scale) \div 1000, e)

\* The three formulas: c1/(excen-1), (6*c2/excen)**0.3333333333333 (the
\* exponent differs from 1/3 by 3e-14, below the fixed-point unit) and
\* (120*c3/excen)**0.2.
Linear(v, e) == Div(v, e - Scale)
Cubic(v, e) == Root(Div(6 * v, e), 3)
Quintic(v, e) == Root(Div(120 * v, e), 5)

\* c1 = a[a <= t1]; a = a[a > t1]; c2 = a[a <= t2]; a = a[a > t2]; c3 = a
Bucket1(a, e) == MaskLeq(a, T1(e))
Rest1(a, e) == MaskGt(a, T1(e))
\* (variant: the second bucket excludes its upper boundary)
Bucket2Strict(a, e) == MaskLeq(Rest1(a, e), T2(e) - 1)
Bucket2(a, e) == MaskLeq(Rest1(a, e), T2(e))
Rest2(a, e) == MaskGt(Rest1(a, e), T2(e))
Bucket3(a, e) == Rest2(a, e)

C1of(a, e) == LET b == Bucket1(a, e) IN [i \in DOMAIN b |-> Linear(b[i], e)]
C2of(a, e) == LET b == Bucket2(a, e) IN [i \in DOMAIN b |-> Cubic(b[i], e)]
C3of(a, e) == LET b == Bucket3(a, e) IN [i \in DOMAIN b |-> Quintic(b[i], e)]

\* xmas = np.hstack((c1, c2, c3))
\* (variant: the buckets are joined in the opposite order)
XmasOfReversed(p, q, r) == Hstack(r, q, p)
XmasOf(p, q, r) == Hstack(p, q, r)

\* xmenos = np.arcsinh(time_array / excen)
XmenosOf(a, e) == [i \in DOMAIN a |-> Arcsinh(Div(a[i], e))]

\* mu = (xmas + xmenos)/2 and rho = (xmas - xmenos)/2, element by element.
MuOf(xp, xm) == [i \in DOMAIN xm |-> IDiv(xp[i] + xm[i], 2)]
RhoOf(xp, xm) == [i \in DOMAIN xm |-> IDiv(xp[i] - xm[i], 2)]

\* aux = mu + rho*(co + 1j*epsi*si) at the node angle x, for one element.
Aux(m, r, x, ep) ==
  [re |-> m + Mul(r, Cos(x)), im |-> Mul(r, Mul(ep, Sin(x)))]

\* gnueva(x, t, excen) = 1./(excen*np.sinh(x) - x - t) at the complex x.
gnueva(x, t, e) ==
  LET sh == CSinh(x.re, x.im)
  IN CRecip(Mul(e, sh.re) - x.re - t, Mul(e, sh.im) - x.im)

\* tablaD = (1j*epsi*co - si)*G*rho at one node and one element.
TablaDAt(m, r, x, t, e, ep) ==
  CMul(CMul(CFin(-Sin(x), Mul(ep, Cos(x))), gnueva(Aux(m, r, x, ep), t, e)),
       CReal(r))

\* tablaN = aux*tablaD at one node and one element.
TablaNAt(m, r, x, ep, d) ==
  LET z == Aux(m, r, x, ep) IN CMul(CFin(z.re, z.im), d)

TablaDOf(a, n, e, ep, m, r) ==
  LET x == Linspace(n)
  IN [k \in DOMAIN x |->
        [i \in DOMAIN a |-> TablaDAt(m[i], r[i], x[k], a[i], e, ep)]]

TablaNOf(a, n, ep, m, r, tD) ==
  LET x == Linspace(n)
  IN [k \in DOMAIN x |->
        [i \in DOMAIN a |-> TablaNAt(m[i], r[i], x[k], ep, tD[k][i])]]

\* tabla[0] + tabla[-1] + 2*np.sum(tabla[1:N_fft-1], axis=0)
\* (variant: the slice runs to the last node, tabla[1:N_fft])
TrapezoidToEnd(tabla, n, len) ==
  LET inner == SumRows(PySlice(tabla, 1, n), len)
  IN [i \in 1..len |->
        CAdd(CAdd(tabla[1][i], tabla[Len(tabla)][i]),
             CMul(CReal(2 * Scale), inner[i]))]
Trapezoid(tabla, n, len) ==
  LET inner == SumRows(PySlice(tabla, 1, n - 1), len)
  IN [i \in 1..len |->
        CAdd(CAdd(tabla[1][i], tabla[Len(tabla)][i]),
             CMul(CReal(2 * Scale), inner[i]))]

\* z0_array = np.imag(numer)/np.imag(denom)
Z0Of(nu, de) == [i \in DOMAIN nu |-> XDiv(nu[i].im, de[i].im)]

\* The whole computation as a function of its (valid) arguments.
XmasRun(a, e) == XmasOf(C1of(a, e), C2of(a, e), C3of(a, e))
MuRun(a, e) == MuOf(XmasRun(a, e), XmenosOf(a, e))
RhoRun(a, e) == RhoOf(XmasRun(a, e), XmenosOf(a, e))
trpz_opt(a, n, e, ep) ==
  LET m == MuRun(a, e)
      r == RhoRun(a, e)
      tD == TablaDOf(a, n, e, ep, m, r)
      tN == TablaNOf(a, n, ep, m, r, tD)
  IN Z0Of(Trapezoid(tN, n, Len(a)), Trapezoid(tD, n, Len(a)))

\* ------------------------------------------------------------- inputs
Seqs(V) == UNION {[1..n -> V] : n \in 0..MaxLen}

Orders == 0..MaxN
Eccentricities == {Scale \div 2, Scale, (3 * Scale) \div 2, 2 * Scale}
Epsilons == {Scale, Scale \div 2}
\* One value per regime for both valid eccentricities (linear, cubic,
\* quintic), and the boundary value 0.
TimeValues == {0, Scale \div 2, 5 * Scale, 31 * Scale}

Fresh ==
  /\ pc = "validate"
  /\ outcome = "running"
  /\ c1 = <<>> /\ c2 = <<>> /\ c3 = <<>> /\ xmas = <<>>
  /\ xmenos = <<>> /\ mu = <<>> /\ rho = <<>>
  /\ tablaD = <<>> /\ tablaN = <<>>
  /\ numer = <<>> /\ denom = <<>>
  /\ z0_array = <<>>

\* The arrays drawn.  A zero that follows a value of 1 or more is left out:
\* the partitioner gives that zero another element's upper bound, and its
\* result then hinges on sin(pi) = 1.2e-16, below the model's resolution.
\* (0 and 1/2 are in the linear regime for every valid eccentricity drawn.)
Resolved(a) ==
  \A i, j \in DOMAIN a : (i < j /\ a[j] = 0) => a[i] < Scale
TimeArrays == {a \in Seqs(TimeValues) : Resolved(a)}

\* A call of trpz_opt with arguments from the sets above.
Init ==
  /\ time_array \in TimeArrays
  /\ N_fft \in Orders
  /\ excen \in Eccentricities
  /\ epsi \in Epsilons
  /\ Fresh

\* Calls that exercise the regime boundaries: values at and next to t1 and
\* t2, a negative value, a value beyond 95.2669*excen, and an eccentricity
\* large enough that t1 > t2.
RegimeEccentricities == {2 * Scale, 110 * Scale}
RegimeValues(e) ==
  {-(Scale \div 2), T1(e), T1(e) + 1, T2(e), T2(e) + 1, Mul(e, 100 * Scale)}
InitRegime ==
  /\ excen \in RegimeEccentricities
  /\ time_array \in Seqs(RegimeValues(excen))
  /\ N_fft \in {1, 2}
  /\ epsi = Scale
  /\ Fresh

\* ------------------------------------------------------------ actions
\* assert N_fft > 1; assert excen > 1
Validate ==
  /\ pc = "validate"
  /\ IF ValidOrder(N_fft) /\ ValidExcen(excen)
       THEN pc' = "partition" /\ outcome' = outcome
       ELSE pc' = "raised" /\ outcome' = "AssertionError"
  /\ UNCHANGED <<args, partitionVars, contourVars, tableVars, sumVars,
                 z0_array>>

\* a = time_array ... xmas = np.hstack((c1,c2,c3))
Partition ==
  /\ pc = "partition"
  /\ c1' = C1of(time_array, excen)
  /\ c2' = C2of(time_array, excen)
  /\ c3' = C3of(time_array, excen)
  /\ xmas' = XmasOf(c1', c2', c3')
  /\ pc' = "contour"
  /\ UNCHANGED <<args, contourVars, tableVars, sumVars, z0_array, outcome>>

\* xmenos, mu, rho
Contour ==
  /\ pc = "contour"
  /\ xmenos' = XmenosOf(time_array, excen)
  /\ mu' = MuOf(xmas, xmenos')
  /\ rho' = RhoOf(xmas, xmenos')
  /\ pc' = "integrand"
  /\ UNCHANGED <<args, partitionVars, tableVars, sumVars, z0_array, outcome>>

\* x, si, co, aux, G, tablaD, tablaN
Integrand ==
  /\ pc = "integrand"
  /\ tablaD' = TablaDOf(time_array, N_fft, excen, epsi, mu, rho)
  /\ tablaN' = TablaNOf(time_array, N_fft, epsi, mu, rho, tablaD')
  /\ pc' = "quadrature"
  /\ UNCHANGED <<args, partitionVars, contourVars, sumVars, z0_array,
                 outcome>>

\* numer, denom
Quadrature ==
  /\ pc = "quadrature"
  /\ numer' = Trapezoid(tablaN, N_fft, Len(time_array))
  /\ denom' = Trapezoid(tablaD, N_fft, Len(time_array))
  /\ pc' = "extract"
  /\ UNCHANGED <<args, partitionVars, contourVars, tableVars, z0_array,
                 outcome>>

\* z0_array = ...; return z0_array
Extract ==
  /\ pc = "extract"
  /\ z0_array' = Z0Of(numer, denom)
  /\ outcome' = "returned"
  /\ pc' = "done"
  /\ UNCHANGED <<args, partitionVars, contourVars, tableVars, sumVars>>

Next ==
  \/ Validate
  \/ Partition
  \/ Contour
  \/ Integrand
  \/ Quadrature
  \/ Extract

Spec == Init /\ [][Next]_vars

\* The bracket partitioner and the contour builder alone.
NextRegime ==
  \/ Validate
  \/ Partition
  \/ Contour

SpecRegime == InitRegime /\ [][NextRegime]_vars

\* ====================================================================
\* Properties
\* ====================================================================
Partitioned == pc \in {"contour", "integrand", "quadrature", "extract", "done"}
ContourBuilt == pc \in {"integrand", "quadrature", "extract", "done"}
Summed == pc \in {"extract", "done"}

\* The regime of a value and its formula, chosen element by element
\* (if / elif / else).
RegimeClass(v, e) == IF v <= T1(e) THEN 1 ELSE IF v <= T2(e) THEN 2 ELSE 3
RegimeFormula(v, e) ==
  IF v <= T1(e) THEN Linear(v, e)
  ELSE IF v <= T2(e) THEN Cubic(v, e)
  ELSE Quintic(v, e)

\* The multiset of the values of a function or sequence.
BagOf(g) ==
  [v \in {g[i] : i \in DOMAIN g} |-> Cardinality({i \in DOMAIN g : g[i] = v})]

\* --------------------------------------------------------------------
\* C1: for every input array xmas has the length of time_array and
\* xmas[i] is the regime formula of time_array[i], for every index i.
C1_IndexAligned ==
  Partitioned =>
    /\ Len(xmas) = Len(time_array)
    /\ \A i \in DOMAIN time_array :
         xmas[i] = RegimeFormula(time_array[i], excen)

\* --------------------------------------------------------------------
\* C2: a call with N_fft <= 1 or excen <= 1 ends in the assertion error,
\* and nothing has been computed when it does; no array is returned.
C2_InvalidArgumentFirst ==
  (N_fft <= 1 \/ excen <= Scale) =>
    /\ pc \in {"validate", "raised"}
    /\ pc = "raised" => outcome = "AssertionError"
    /\ outcome # "returned"
    /\ c1 = <<>> /\ c2 = <<>> /\ c3 = <<>> /\ xmas = <<>>
    /\ xmenos = <<>> /\ mu = <<>> /\ rho = <<>>
    /\ tablaD = <<>> /\ tablaN = <<>> /\ numer = <<>> /\ denom = <<>>
    /\ z0_array = <<>>

C2_Witness ==
  /\ pc = "raised"
  /\ outcome = "AssertionError"
  /\ N_fft = 1
  /\ excen > Scale
  /\ time_array # <<>>

\* --------------------------------------------------------------------
\* C3: an element's mu, rho and z0 do not depend on the other elements:
\* any array B of the same length that agrees with time_array at index i
\* gives the same mu[i], rho[i] and z0[i].
C3_ElementsIndependent ==
  pc = "done" =>
    \A B \in TimeArrays :
      Len(B) = Len(time_array) =>
        \A i \in DOMAIN B :
          B[i] = time_array[i] =>
            /\ mu[i] = MuRun(B, excen)[i]
            /\ rho[i] = RhoRun(B, excen)[i]
            /\ z0_array[i] = trpz_opt(B, N_fft, excen, epsi)[i]

\* --------------------------------------------------------------------
\* C4: an element M = 0 yields a finite z0 that is 0 up to the tolerance.
Tolerance == Scale \div 100
C4_ZeroMapsToZero ==
  pc = "done" =>
    \A i \in DOMAIN time_array :
      time_array[i] = 0 =>
        /\ IsFinite(z0_array[i])
        /\ Abs(z0_array[i].v) <= Tolerance

\* --------------------------------------------------------------------
\* C5: a degenerate contour (rho < 0, or a denominator with imaginary
\* part zero) is reported as a failure: an array that is returned holds
\* no element with a degenerate contour.
Degenerate(i) == rho[i] < 0 \/ denom[i].im = Fin(0)
C5_DegenerateReported ==
  outcome = "returned" =>
    \A i \in DOMAIN time_array : ~Degenerate(i)

\* --------------------------------------------------------------------
\* C6: every rho that reaches the integrand evaluation is >= 0.
C6_RhoNonNegative ==
  ContourBuilt => \A i \in DOMAIN rho : rho[i] >= 0

\* --------------------------------------------------------------------
\* C7: every returned z0 solves the equation for the M at its index:
\* |excen*sinh(z0) - z0 - M| is below the tolerance (taken generously:
\* two units of M, which the coarsest quadrature of an enclosed root
\* meets).
RoundTripTol == 2 * Scale
Residual(z, t, e) == Mul(e, Sinh(z)) - z - t
C7_RoundTrip ==
  pc = "done" =>
    \A i \in DOMAIN time_array :
      /\ IsFinite(z0_array[i])
      /\ Abs(z0_array[i].v) <= 10 * Scale
      /\ Abs(Residual(z0_array[i].v, time_array[i], excen)) < RoundTripTol

\* --------------------------------------------------------------------
\* C8: every value is placed in exactly one bucket by the tests
\* M <= t1 / M > t1 and M <= t2 / M > t1 and M > t2, each bucket holds the
\* formula values of exactly its elements, and the values of xmas are, as
\* a multiset, the per-element formula values: nothing dropped, nothing
\* duplicated, also when t1 > t2 and beyond 95.2669*excen.
C8_RegimeBuckets ==
  Partitioned =>
    LET a == time_array
        e == excen
        t1 == T1(e)
        t2 == T2(e)
        In1 == {i \in DOMAIN a : a[i] <= t1}
        In2 == {i \in DOMAIN a : a[i] > t1 /\ a[i] <= t2}
        In3 == {i \in DOMAIN a : a[i] > t1 /\ a[i] > t2}
        Formula(i) == IF i \in In1 THEN Div(a[i], e - Scale)
                      ELSE IF i \in In2 THEN Root(Div(6 * a[i], e), 3)
                      ELSE Root(Div(120 * a[i], e), 5)
    IN /\ BagOf(c1) = BagOf([i \in In1 |-> Formula(i)])
       /\ BagOf(c2) = BagOf([i \in In2 |-> Formula(i)])
       /\ BagOf(c3) = BagOf([i \in In3 |-> Formula(i)])
       /\ Len(c1) + Len(c2) + Len(c3) = Len(a)
       /\ Len(xmas) = Len(a)
       /\ BagOf(xmas) = BagOf([i \in DOMAIN a |-> Formula(i)])

C8_Witness ==
  /\ Partitioned
  /\ T1(excen) > T2(excen)
  /\ c2 = <<>>
  /\ \E i \in DOMAIN time_array :
       time_array[i] > T2(excen) /\ time_array[i] <= T1(excen)
  /\ \E j \in DOMAIN time_array :
       /\ time_array[j] > Mul((952669 * Scale) \div 10000, excen)
       /\ Quintic(time_array[j], excen) \in Range(c3)

\* --------------------------------------------------------------------
\* C9: numer and denom count the first and the last node once and every
\* interior node twice, with no further factor, and with the same
\* weights for both.
Weight(k, n) == IF k = 1 \/ k = n THEN 1 ELSE 2
Times(z, w) == IF w = 1 THEN z ELSE CAdd(z, z)
RECURSIVE WeightedSum(_, _, _)
WeightedSum(tabla, i, k) ==
  IF k = 0 THEN CReal(0)
  ELSE CAdd(WeightedSum(tabla, i, k - 1),
            Times(tabla[k][i], Weight(k, Len(tabla))))
C9_TrapezoidWeights ==
  Summed =>
    /\ Len(tablaN) = N_fft /\ Len(tablaD) = N_fft
    /\ \A i \in DOMAIN time_array :
         /\ numer[i] = WeightedSum(tablaN, i, N_fft)
         /\ denom[i] = WeightedSum(tablaD, i, N_fft)

C9_Witness ==
  /\ Summed
  /\ N_fft >= 3
  /\ \E i \in DOMAIN time_array :
       /\ IsFinite(tablaD[2][i].im) /\ tablaD[2][i].im.v # 0
       /\ IsFinite(tablaN[2][i].im) /\ tablaN[2][i].im.v # 0
       /\ IsFinite(denom[i].im)

\* --------------------------------------------------------------------
\* C10: when the regime class is non-decreasing along time_array (sorted
\* input, or all elements in one regime, in any order), xmas is aligned
\* with it: xmas[i] is the regime formula of time_array[i].
RegimeMonotone ==
  \A i, j \in DOMAIN time_array :
    i < j => RegimeClass(time_array[i], excen) <= RegimeClass(time_array[j], excen)
C10_AlignedWhenRegimeMonotone ==
  (Partitioned /\ RegimeMonotone) =>
    /\ Len(xmas) = Len(time_array)
    /\ \A i \in DOMAIN time_array :
         xmas[i] = RegimeFormula(time_array[i], excen)

C10_Witness ==
  /\ Partitioned
  /\ RegimeMonotone
  /\ Len(time_array) = 3
  /\ time_array[1] > time_array[2]
  /\ RegimeClass(time_array[1], excen) = RegimeClass(time_array[2], excen)
  /\ RegimeClass(time_array[2], excen) < RegimeClass(time_array[3], excen)
  /\ xmas[1] # xmas[2]

=============================================================================
